---- MODULE Spec2Model ----
(***************************************************************************)
(* geolucidate: recognition of geographic coordinates in text and their    *)
(* conversion to signed decimal (latitude, longitude) strings.             *)
(*                                                                         *)
(* A Python string is a sequence of one-character strings.  Characters     *)
(* outside ASCII are written as named atoms: "DEG" is U+00B0, "ORD" is     *)
(* U+00BA, "PRIME" U+2032, "DPRIME" U+2033, "ACUTE" U+00B4, "LDQUO" and    *)
(* "RDQUO" U+201C/U+201D, "APOS" the apostrophe, "QUOT" the double quote,    *)
(* "BACKTICK" U+0060; "LF" is the newline and "TAB" the tab.               *)
(* Python's None is the empty sequence: no named group of either pattern   *)
(* can capture the empty string, and the code tests captures for truth.    *)
(***************************************************************************)
EXTENDS Integers, Sequences, FiniteSets, TLC

None == <<>>

Digits == {"0", "1", "2", "3", "4", "5", "6", "7", "8", "9"}
DigitChars == <<"0", "1", "2", "3", "4", "5", "6", "7", "8", "9">>
Whitespace == {" ", "LF", "TAB"}

LowerLetters == <<"a","b","c","d","e","f","g","h","i","j","k","l","m",
                  "n","o","p","q","r","s","t","u","v","w","x","y","z">>
UpperLetters == <<"A","B","C","D","E","F","G","H","I","J","K","L","M",
                  "N","O","P","Q","R","S","T","U","V","W","X","Y","Z">>

\* str.upper() on one character; also the case folding of re.IGNORECASE
Upper(c) ==
  IF \E i \in 1..26 : LowerLetters[i] = c
  THEN UpperLetters[CHOOSE i \in 1..26 : LowerLetters[i] = c]
  ELSE c

DigitVal(c) == (CHOOSE i \in 1..10 : DigitChars[i] = c) - 1

Zeros(n) == [i \in 1..n |-> 0]

\* str.strip(): leading and trailing whitespace removed
LeadingSpaces(s) ==
  LET lead[i \in 0..Len(s)] ==
        IF i = Len(s) THEN i
        ELSE IF s[i + 1] \in Whitespace THEN lead[i + 1] ELSE i
  IN lead[0]

TrailingSpaces(s) ==
  LET trail[i \in 0..Len(s)] ==
        IF i = Len(s) THEN i
        ELSE IF s[Len(s) - i] \in Whitespace THEN trail[i + 1] ELSE i
  IN trail[0]

Strip(s) ==
  IF LeadingSpaces(s) = Len(s) THEN <<>>
  ELSE SubSeq(s, LeadingSpaces(s) + 1, Len(s) - TrailingSpaces(s))

(***************************************************************************)
(* geolucidate.constants: the minute and second character classes.         *)
(***************************************************************************)
MINUTE_CHARACTERS == {"APOS", "PRIME", "BACKTICK", "ACUTE"}
SECOND_CHARACTERS == {"QUOT", "DPRIME", "LDQUO", "RDQUO"}

\* re.sub(MINUTE_CHARACTERS_RE, apostrophe, string)
SubMinute(s) == [i \in 1..Len(s) |-> IF s[i] \in MINUTE_CHARACTERS THEN "APOS" ELSE s[i]]

\* the number of backticks in a row just before position i
BackticksBefore(s, i) ==
  LET others == {j \in 1..(i - 1) : s[j] # "BACKTICK"}
  IN i - 1 - (IF others = {} THEN 0 ELSE CHOOSE j \in others : \A k \in others : k <= j)

\* re.sub(SECOND_CHARACTERS_RE, double quote, string): a second character, or
\* two backticks in a row, becomes one double quote
SubSecond(s) ==
  LET second == {i \in 1..Len(s) : s[i] = "BACKTICK" /\ BackticksBefore(s, i) % 2 = 1}
      first == {i \in 1..Len(s) : (i + 1) \in second}
      kept == (1..Len(s)) \ second
  IN [k \in 1..Cardinality(kept) |->
        LET i == CHOOSE a \in kept : Cardinality({b \in kept : b <= a}) = k
        IN IF i \in first \/ s[i] \in SECOND_CHARACTERS THEN "QUOT" ELSE s[i]]

StripOnce(s) ==
  LET a == IF s # <<>> /\ s[1] \in Whitespace THEN Tail(s) ELSE s
  IN IF a # <<>> /\ a[Len(a)] \in Whitespace THEN SubSeq(a, 1, Len(a) - 1) ELSE a

NormalizeStripsOneCharacter(string) == SubSecond(SubMinute(StripOnce(string)))

\* _normalize_string
NormalizeString(string) == SubSecond(SubMinute(Strip(string)))

(***************************************************************************)
(* The backtracking matcher of Python's re.  A match state is the position *)
(* of the next character and the captures so far; every piece of a pattern *)
(* maps one state to the sequence of states it can leave, in the order     *)
(* the matcher tries them.  The match is the first state to reach the end. *)
(***************************************************************************)
GroupNames == {"latdir", "latsign", "latdeg", "degmark", "degpd", "latminsec",
               "latmin", "latsec", "latdecsec", "latdir2", "longdir",
               "longsign", "longdeg", "longminsec", "longmin", "longsec",
               "longdecsec", "longdir2", "latitude", "latpoint", "longitude",
               "longpoint"}

StartAt(p) == [pos |-> p, g |-> [n \in GroupNames |-> None]]

Adv(st, n) == [st EXCEPT !.pos = @ + n]

\* L without the later copies of a state: a state tried again leaves the
\* matcher where its first trial did, so the first match is unchanged
Distinct(L) ==
  LET keep == {i \in 1..Len(L) : \A j \in 1..(i - 1) : L[j] # L[i]}
  IN [k \in 1..Cardinality(keep) |->
        L[CHOOSE i \in keep : Cardinality({j \in keep : j <= i}) = k]]

\* sequencing: every state of L continued by F, order kept
Then(L, F(_)) ==
  CHOOSE r \in { LET acc[i \in 0..Len(v)] ==
                       IF i = 0 THEN <<>> ELSE acc[i - 1] \o F(v[i])
                 IN Distinct(acc[Len(v)]) : v \in {L} } : TRUE

\* one character of a class, compared without case
OneOf(s, st, class) ==
  IF st.pos <= Len(s) /\ Upper(s[st.pos]) \in class THEN <<Adv(st, 1)>> ELSE <<>>

\* one character outside a class
NoneOf(s, st, class) ==
  IF st.pos <= Len(s) /\ s[st.pos] \notin class THEN <<Adv(st, 1)>> ELSE <<>>

\* a literal word, compared without case
Word(s, st, w) ==
  IF st.pos + Len(w) - 1 <= Len(s)
     /\ \A i \in 1..Len(w) : Upper(s[st.pos + i - 1]) = w[i]
  THEN <<Adv(st, Len(w))>> ELSE <<>>

\* X? (greedy): the states X leaves, then the state itself
Maybe(st, R) == R \o <<st>>

\* the number of characters of a class in a row at the state's position
RunLength(s, st, class) ==
  LET run[i \in 0..Len(s)] ==
        IF st.pos + i <= Len(s) /\ s[st.pos + i] \in class THEN run[i + 1] ELSE i
  IN IF st.pos > Len(s) THEN 0 ELSE run[0]

Min(a, b) == IF a < b THEN a ELSE b
Max(a, b) == IF a > b THEN a ELSE b

\* [class]{lo,hi} (greedy): the longest run first
Run(s, st, class, lo, hi) ==
  LET n == Min(hi, RunLength(s, st, class))
  IN IF n < lo THEN <<>> ELSE [i \in 1..(n - lo + 1) |-> Adv(st, n + 1 - i)]

\* (?P<name>X): the text between the state and each state X leaves
Capture(s, name, st, R) ==
  CHOOSE r \in { [i \in 1..Len(v) |->
                   [v[i] EXCEPT !.g[name] = SubSeq(s, st.pos, v[i].pos - 1)]]
                 : v \in {R} } : TRUE

IsSet(st, name) == st.g[name] # None

\* ^ without re.MULTILINE: only the start of the string
Caret(st) == IF st.pos = 1 THEN <<st>> ELSE <<>>

\* $ without re.MULTILINE: the end of the string, or before a final newline
Dollar(s, st) ==
  IF st.pos = Len(s) + 1 \/ (st.pos = Len(s) /\ s[Len(s)] = "LF")
  THEN <<st>> ELSE <<>>

Space(s, st) == OneOf(s, st, {" "})
MaybeSpace(s, st) == Maybe(st, Space(s, st))
\* \s?
MaybeWhite(s, st) == Maybe(st, OneOf(s, st, Whitespace))

NORTH == <<"N", "O", "R", "T", "H">>
SOUTH == <<"S", "O", "U", "T", "H">>
EAST == <<"E", "A", "S", "T">>
WEST == <<"W", "E", "S", "T">>
DEGREES == <<"D", "E", "G", "R", "E", "E", "S">>

MINUTES == <<" ", "M", "I", "N", "U", "T", "E", "S">>
SECONDS == <<" ", "S", "E", "C", "O", "N", "D", "S", " ">>
DEGREES_COMMA == <<" ", "D", "E", "G", "R", "E", "E", "S", ",", " ">>

(***************************************************************************)
(* parser.decimal_degree_re                                                *)
(***************************************************************************)
\* (?P<latdir>NORTH|SOUTH|[NS-])?\s?
DecLatDir(s, st) ==
  Then(Maybe(st, Capture(s, "latdir", st,
         Word(s, st, NORTH) \o Word(s, st, SOUTH) \o OneOf(s, st, {"N", "S", "-"}))),
       LAMBDA a : MaybeWhite(s, a))

\* (\.)?(?(point)(\d+)|[^\d]) after the degrees of a decimal number
DecFraction(s, st, point) ==
  Then(Maybe(st, Capture(s, point, st, OneOf(s, st, {"."}))),
       LAMBDA a : IF IsSet(a, point) THEN Run(s, a, Digits, 1, Len(s))
                  ELSE NoneOf(s, a, Digits))

\* (?P<latitude>([0-8][0-9]|90)(?P<latpoint>\.)?(?(latpoint)(\d+)|[^\d]))\s?
DecLatitude(s, st) ==
  Then(Capture(s, "latitude", st,
         Then(Then(OneOf(s, st, {"0", "1", "2", "3", "4", "5", "6", "7", "8"}),
                   LAMBDA a : OneOf(s, a, Digits))
              \o Word(s, st, <<"9", "0">>),
              LAMBDA b : DecFraction(s, b, "latpoint"))),
       LAMBDA c : MaybeWhite(s, c))

\* (degrees|DEG)?\s?
DecDegrees(s, st) ==
  Then(Maybe(st, Word(s, st, DEGREES) \o OneOf(s, st, {"DEG"})),
       LAMBDA a : MaybeWhite(s, a))

\* (?P<latdir2>NORTH|SOUTH|[NS])?
DecLatDir2(s, st) ==
  Maybe(st, Capture(s, "latdir2", st,
         Word(s, st, NORTH) \o Word(s, st, SOUTH) \o OneOf(s, st, {"N", "S"})))

\* ([\s,]+)?
DecSeparator(s, st) == Maybe(st, Run(s, st, Whitespace \cup {","}, 1, Len(s)))

\* (?P<longdir>EAST|WEST|[EW-])?\s?
DecLongDir(s, st) ==
  Then(Maybe(st, Capture(s, "longdir", st,
         Word(s, st, EAST) \o Word(s, st, WEST) \o OneOf(s, st, {"E", "W", "-"}))),
       LAMBDA a : MaybeWhite(s, a))

\* ((1(([0-7][0-9]|80))|(0?[0-9][0-9]))): the degrees of a longitude
LongDegrees(s, st) ==
  Then(OneOf(s, st, {"1"}),
       LAMBDA a : Then(OneOf(s, a, {"0", "1", "2", "3", "4", "5", "6", "7"}),
                       LAMBDA b : OneOf(s, b, Digits))
                  \o Word(s, a, <<"8", "0">>))
  \o Then(Then(Maybe(st, OneOf(s, st, {"0"})), LAMBDA a : OneOf(s, a, Digits)),
          LAMBDA b : OneOf(s, b, Digits))

\* (?P<longitude>...(?P<longpoint>\.)?(?(longpoint)(\d+)|[^\d]))\s?
DecLongitude(s, st) ==
  Then(Capture(s, "longitude", st,
         Then(LongDegrees(s, st), LAMBDA b : DecFraction(s, b, "longpoint"))),
       LAMBDA c : MaybeWhite(s, c))

\* (?P<longdir2>EAST|WEST|[EW])?
DecLongDir2(s, st) ==
  Maybe(st, Capture(s, "longdir2", st,
         Word(s, st, EAST) \o Word(s, st, WEST) \o OneOf(s, st, {"E", "W"})))

\* an optional parenthesis
MaybeParen(s, st, paren) == Maybe(st, OneOf(s, st, {paren}))

\* every way decimal_degree_re matches s from position p, in the matcher's order
DecimalDegreeStatesOf(s, p) ==
  LET s1 == Then(Caret(StartAt(p)), LAMBDA a : MaybeParen(s, a, "("))
      s2 == Then(s1, LAMBDA a : DecLatDir(s, a))
      s3 == Then(s2, LAMBDA a : DecLatitude(s, a))
      s4 == Then(s3, LAMBDA a : DecDegrees(s, a))
      s5 == Then(s4, LAMBDA a : DecLatDir2(s, a))
      s6 == Then(s5, LAMBDA a : DecSeparator(s, a))
      s7 == Then(s6, LAMBDA a : DecLongDir(s, a))
      s8 == Then(s7, LAMBDA a : DecLongitude(s, a))
      s9 == Then(s8, LAMBDA a : DecDegrees(s, a))
      s10 == Then(s9, LAMBDA a : DecLongDir2(s, a))
      s11 == Then(s10, LAMBDA a : MaybeParen(s, a, ")"))
  IN Then(s11, LAMBDA a : Dollar(s, a))

DecimalDegreeStates(string, p) ==
  CHOOSE r \in {DecimalDegreeStatesOf(s, p) : s \in {string}} : TRUE

NoMatch == [pos |-> 0, g |-> [n \in GroupNames |-> None]]

FirstOf(L) == IF L = <<>> THEN NoMatch ELSE L[1]

\* decimal_degree_re.match(string)
DecimalDegreeMatch(s) == FirstOf(DecimalDegreeStates(s, 1))

(***************************************************************************)
(* parser.degree_min_sec_re                                                *)
(***************************************************************************)
\* (((?P<latdir>NORTH|SOUTH|[NS])\ ?)|(?P<latsign>-))?
DmsLatDir(s, st) ==
  Maybe(st,
    Then(Capture(s, "latdir", st,
           Word(s, st, NORTH) \o Word(s, st, SOUTH) \o OneOf(s, st, {"N", "S"})),
         LAMBDA a : MaybeSpace(s, a))
    \o Capture(s, "latsign", st, OneOf(s, st, {"-"})))

\* (?P<latdeg>([0-8]?[0-9])|90)
DmsLatDeg(s, st) ==
  Capture(s, "latdeg", st,
    Then(Maybe(st, OneOf(s, st, {"0", "1", "2", "3", "4", "5", "6", "7", "8"})),
         LAMBDA a : OneOf(s, a, Digits))
    \o Word(s, st, <<"9", "0">>))

\* \ ?(ORD|DEG)\ ?
DegreeMark(s, st) ==
  Then(Then(MaybeSpace(s, st), LAMBDA a : OneOf(s, a, {"ORD", "DEG"})),
       LAMBDA b : MaybeSpace(s, b))

\* (\ |(?P<degmark>\ ?(ORD|DEG)\ ?|(?P<degpd>\.)|-|\ DEGREES,\ ))?
DmsLatDegSep(s, st) ==
  Maybe(st,
    Space(s, st)
    \o Capture(s, "degmark", st,
         DegreeMark(s, st)
         \o Capture(s, "degpd", st, OneOf(s, st, {"."}))
         \o OneOf(s, st, {"-"})
         \o Word(s, st, DEGREES_COMMA)))

\* (?P<latmin>([0-5]?)[0-9])
DmsMinutes(s, st, min) ==
  Capture(s, min, st,
    Then(Maybe(st, OneOf(s, st, {"0", "1", "2", "3", "4", "5"})),
         LAMBDA a : OneOf(s, a, Digits)))

\* (\ |(?(degmark)('|"|\ MINUTES,?)\ ?))?
DmsMinuteMark(s, st) ==
  Maybe(st,
    Space(s, st)
    \o (IF IsSet(st, "degmark")
        THEN Then(OneOf(s, st, {"APOS"}) \o OneOf(s, st, {"QUOT"})
                  \o Then(Word(s, st, MINUTES),
                          LAMBDA a : Maybe(a, OneOf(s, a, {","}))),
                  LAMBDA b : MaybeSpace(s, b))
        ELSE <<st>>))

\* (?P<latsec>(\d{1,2}(\.\d+)?))
DmsSecondsNumber(s, st, sec) ==
  Capture(s, sec, st,
    Then(Run(s, st, Digits, 1, 2),
         LAMBDA a : Maybe(a, Then(OneOf(s, a, {"."}),
                                  LAMBDA b : Run(s, b, Digits, 1, Len(s))))))

\* (((?(degpd)\.?)(?P<latsec>...))|(?P<latdecsec>\.\d{1,3}))?
DmsSeconds(s, st, sec, decsec) ==
  Maybe(st,
    Then(IF IsSet(st, "degpd") THEN Maybe(st, OneOf(s, st, {"."})) ELSE <<st>>,
         LAMBDA a : DmsSecondsNumber(s, a, sec))
    \o Capture(s, decsec, st,
         Then(OneOf(s, st, {"."}), LAMBDA a : Run(s, a, Digits, 1, 3))))

\* (?(degmark)("|'|\ SECONDS\ )?)
DmsSecondMark(s, st) ==
  IF IsSet(st, "degmark")
  THEN Maybe(st, OneOf(s, st, {"QUOT"}) \o OneOf(s, st, {"APOS"}) \o Word(s, st, SECONDS))
  ELSE <<st>>

\* minutes, the punctuation after them, and seconds
DmsMinSec(s, st, min, sec, decsec) ==
  Then(Then(DmsMinutes(s, st, min), LAMBDA a : DmsMinuteMark(s, a)),
       LAMBDA b : DmsSeconds(s, b, sec, decsec))

\* (?P<latminsec> ... )?: the group takes in the punctuation after the seconds
DmsLatMinSec(s, st) ==
  Maybe(st, Capture(s, "latminsec", st,
              Then(DmsMinSec(s, st, "latmin", "latsec", "latdecsec"),
                   LAMBDA c : DmsSecondMark(s, c))))

\* \ ?(?P<latdir2>(NORTH|SOUTH|[NS]))?
DmsLatDir2(s, st) ==
  Then(MaybeSpace(s, st),
       LAMBDA a : Maybe(a, Capture(s, "latdir2", a,
                    Word(s, a, NORTH) \o Word(s, a, SOUTH) \o OneOf(s, a, {"N", "S"}))))

\* (\ ?[ /]\ ?|,\ )?
DmsDelimiter(s, st) ==
  Maybe(st,
    Then(Then(MaybeSpace(s, st), LAMBDA a : OneOf(s, a, {" ", "/"})),
         LAMBDA b : MaybeSpace(s, b))
    \o Word(s, st, <<",", " ">>))

\* ((?(latdir)((?P<longdir>EAST|WEST|[EW])\ ?))|(?P<longsign>-)?)
DmsLongDir(s, st) ==
  (IF IsSet(st, "latdir")
   THEN Then(Capture(s, "longdir", st,
               Word(s, st, EAST) \o Word(s, st, WEST) \o OneOf(s, st, {"E", "W"})),
             LAMBDA a : MaybeSpace(s, a))
   ELSE <<st>>)
  \o Maybe(st, Capture(s, "longsign", st, OneOf(s, st, {"-"})))

\* (?P<longdeg>((1(([0-7][0-9]|80))|(0?[0-9][0-9]))))
DmsLongDeg(s, st) == Capture(s, "longdeg", st, LongDegrees(s, st))

\* (\ |(?(degmark)(\ ?(ORD|DEG)\ ?|\.|-|\ DEGREES,\ )))?
DmsLongDegSep(s, st) ==
  Maybe(st,
    Space(s, st)
    \o (IF IsSet(st, "degmark")
        THEN DegreeMark(s, st) \o OneOf(s, st, {"."}) \o OneOf(s, st, {"-"})
             \o Word(s, st, DEGREES_COMMA)
        ELSE <<st>>))

\* minutes and seconds of the longitude looked for whatever the latitude had
DmsLongMinSecOptional(s, st) ==
  Maybe(st, Then(Capture(s, "longminsec", st,
                   DmsMinSec(s, st, "longmin", "longsec", "longdecsec")),
                 LAMBDA c : DmsSecondMark(s, c)))

\* (?(latminsec)(?P<longminsec> ... )(?(degmark)...)): the group ends before
\* the punctuation after the seconds
DmsLongMinSec(s, st) ==
  IF IsSet(st, "latminsec")
  THEN Then(Capture(s, "longminsec", st,
              DmsMinSec(s, st, "longmin", "longsec", "longdecsec")),
            LAMBDA c : DmsSecondMark(s, c))
  ELSE <<st>>

\* (?(latdir2)(\ ?(?P<longdir2>(EAST|WEST|[EW]))))
DmsLongDir2(s, st) ==
  IF IsSet(st, "latdir2")
  THEN Then(MaybeSpace(s, st),
            LAMBDA a : Capture(s, "longdir2", a,
                         Word(s, a, EAST) \o Word(s, a, WEST) \o OneOf(s, a, {"E", "W"})))
  ELSE <<st>>

\* every way degree_min_sec_re matches s from position p, in the matcher's order
DegreeMinSecStatesOf(s, p) ==
  LET s1 == Then(Caret(StartAt(p)), LAMBDA a : MaybeParen(s, a, "("))
      s2 == Then(s1, LAMBDA a : DmsLatDir(s, a))
      s3 == Then(s2, LAMBDA a : DmsLatDeg(s, a))
      s4 == Then(s3, LAMBDA a : DmsLatDegSep(s, a))
      s5 == Then(s4, LAMBDA a : DmsLatMinSec(s, a))
      s6 == Then(s5, LAMBDA a : DmsLatDir2(s, a))
      s7 == Then(s6, LAMBDA a : DmsDelimiter(s, a))
      s8 == Then(s7, LAMBDA a : DmsLongDir(s, a))
      s9 == Then(s8, LAMBDA a : DmsLongDeg(s, a))
      s10 == Then(s9, LAMBDA a : DmsLongDegSep(s, a))
      s11 == Then(s10, LAMBDA a : DmsLongMinSec(s, a))
      s12 == Then(s11, LAMBDA a : DmsLongDir2(s, a))
      s13 == Then(s12, LAMBDA a : MaybeParen(s, a, ")"))
  IN Then(s13, LAMBDA a : Dollar(s, a))

DegreeMinSecStates(string, p) ==
  CHOOSE r \in {DegreeMinSecStatesOf(s, p) : s \in {string}} : TRUE

\* degree_min_sec_re.match(string)
DegreeMinSecMatch(s) == FirstOf(DegreeMinSecStates(s, 1))

(***************************************************************************)
(* decimal.Decimal.  A number is a sign, its coefficient as a sequence of  *)
(* digits without leading zeros (zero is <<0>>) and an exponent; NaN is    *)
(* what an invalid operation gives where it is not trapped.                *)
(***************************************************************************)
\* the precision of decimal.ExtendedContext, which _convert_to_lat_lng works under
ExtendedPrec == 9
\* the precision of the default context, which _convert_signs works under
DefaultPrec == 28

NaN == [nan |-> TRUE, sign |-> 0, digs |-> <<0>>, exp |-> 0]
Number(sign, digs, exp) == [nan |-> FALSE, sign |-> sign, digs |-> digs, exp |-> exp]

LeadingZeros(d) ==
  LET lz[i \in 0..Len(d)] ==
        IF i = Len(d) THEN i ELSE IF d[i + 1] = 0 THEN lz[i + 1] ELSE i
  IN lz[0]

StripZeros(d) ==
  IF LeadingZeros(d) = Len(d) THEN <<0>> ELSE SubSeq(d, LeadingZeros(d) + 1, Len(d))

IsZero(x) == x.digs = <<0>>

TrailingNines(d) ==
  LET tn[i \in 0..Len(d)] ==
        IF i = Len(d) THEN i ELSE IF d[Len(d) - i] = 9 THEN tn[i + 1] ELSE i
  IN tn[0]

\* the coefficient plus one
Increment(d) ==
  LET t == TrailingNines(d)
  IN IF t = Len(d) THEN <<1>> \o Zeros(Len(d))
     ELSE [i \in 1..Len(d) |->
             IF i < Len(d) - t THEN d[i] ELSE IF i = Len(d) - t THEN d[i] + 1 ELSE 0]

\* the coefficient without its last k digits, rounded half to even; inexact
\* says that digits beyond the coefficient were nonzero
RoundHalfEven(d, k, inexact) ==
  LET padded == Zeros(Max(0, k + 1 - Len(d))) \o d
      n == Len(padded)
      keep == SubSeq(padded, 1, n - k)
      first == padded[n - k + 1]
      rest == inexact \/ \E i \in (n - k + 2)..n : padded[i] # 0
      up == first > 5 \/ (first = 5 /\ (rest \/ keep[Len(keep)] % 2 = 1))
  IN StripZeros(IF up THEN Increment(keep) ELSE keep)

\* a coefficient of more than prec digits once k of them are rounded away:
\* a carry into a new digit drops one more
Rounded(sign, d, exp, k, inexact, prec) ==
  LET r == RoundHalfEven(d, k, inexact)
  IN IF Len(r) > prec THEN Number(sign, SubSeq(r, 1, prec), exp + k + 1)
     ELSE Number(sign, r, exp + k)

\* Decimal._fix: the result of an operation rounded to the context's precision
Fix(x, prec) ==
  IF Len(x.digs) <= prec THEN x
  ELSE Rounded(x.sign, x.digs, x.exp, Len(x.digs) - prec, FALSE, prec)

IsDecimalLiteral(t) ==
  /\ t # <<>>
  /\ \A i \in 1..Len(t) : t[i] \in Digits \cup {"."}
  /\ Cardinality({i \in 1..Len(t) : t[i] = "."}) <= 1
  /\ \E i \in 1..Len(t) : t[i] \in Digits

\* Decimal(string): whitespace around the number is dropped; the captures
\* carry no sign and no exponent
DecimalFromString(str) ==
  LET t == Strip(str)
      point == IF \E i \in 1..Len(t) : t[i] = "."
               THEN CHOOSE i \in 1..Len(t) : t[i] = "." ELSE Len(t) + 1
      chars == SubSeq(t, 1, point - 1) \o SubSeq(t, point + 1, Len(t))
  IN IF ~IsDecimalLiteral(t) THEN NaN
     ELSE Number(0, StripZeros([i \in 1..Len(chars) |-> DigitVal(chars[i])]),
                 IF point > Len(t) THEN 0 ELSE point - Len(t))

\* the coefficients of two numbers brought to one exponent and one length
Aligned(x, e, n) ==
  LET d == IF IsZero(x) THEN <<0>> ELSE x.digs \o Zeros(x.exp - e)
  IN Zeros(n - Len(d)) \o d

\* x + y for x, y >= 0
DecimalAdd(x, y, prec) ==
  LET e == Min(x.exp, y.exp)
      n == Max(Len(x.digs) + x.exp - e, Len(y.digs) + y.exp - e)
      a == Aligned(x, e, n)
      b == Aligned(y, e, n)
      carry[i \in 0..n] ==
        IF i = 0 THEN 0 ELSE (a[n - i + 1] + b[n - i + 1] + carry[i - 1]) \div 10
      sum == <<carry[n]>> \o [i \in 1..n |-> (a[i] + b[i] + carry[n - i]) % 10]
      \* with one operand zero the other is rescaled, by prec + 1 places at most
      ez == IF IsZero(x) /\ ~IsZero(y) THEN Max(e, y.exp - prec - 1)
            ELSE IF IsZero(y) /\ ~IsZero(x) THEN Max(e, x.exp - prec - 1)
            ELSE e
  IN Fix(Number(0, StripZeros(SubSeq(sum, 1, Len(sum) - (ez - e))), ez), prec)

\* the digits and the remainder of a coefficient divided by a small integer
LongDivision(d, n) ==
  LET rem[i \in 0..Len(d)] == IF i = 0 THEN 0 ELSE (rem[i - 1] * 10 + d[i]) % n
  IN [q |-> [i \in 1..Len(d) |-> (rem[i - 1] * 10 + d[i]) \div n], r |-> rem[Len(d)]]

SignificantDigits(d) == Len(d) - LeadingZeros(d)

\* further digits of a quotient while a remainder is left, up to one digit
\* more than the precision
RECURSIVE DivExtend(_, _, _, _, _)
DivExtend(q, r, e, n, prec) ==
  IF r = 0 \/ SignificantDigits(q) > prec THEN [q |-> q, r |-> r, e |-> e]
  ELSE DivExtend(Append(q, (r * 10) \div n), (r * 10) % n, e - 1, n, prec)

\* x / Decimal(n) for x >= 0 and an integer n: exact when the quotient has
\* at most prec digits, with the exponent of x where that is enough
DecimalDivide(x, n, prec) ==
  IF IsZero(x) THEN x
  ELSE LET d == LongDivision(x.digs, n)
           f == DivExtend(d.q, d.r, x.exp, n, prec)
           k == SignificantDigits(f.q) - prec
       IN IF k > 0 THEN Rounded(0, StripZeros(f.q), f.e, k, f.r # 0, prec)
          ELSE Number(0, StripZeros(f.q), f.e)

\* x > 59 for x >= 0 with no positive exponent
GreaterThan59(x) ==
  LET ni == Len(x.digs) + x.exp
      int == IF ni <= 0 THEN 0
             ELSE IF ni = 1 THEN x.digs[1]
             ELSE x.digs[1] * 10 + x.digs[2]
      frac == \E i \in (Max(ni, 0) + 1)..Len(x.digs) : x.digs[i] # 0
  IN ni > 2 \/ int > 59 \/ (int = 59 /\ frac)

\* x * Decimal('-1')
DecimalNegate(x, prec) == Fix([x EXCEPT !.sign = 1 - @], prec)

\* x.quantize(Decimal with exponent e): NaN when the result needs more than
\* prec digits
DecimalQuantize(x, e, prec) ==
  LET d == IF x.exp >= e
           THEN (IF IsZero(x) THEN <<0>> ELSE x.digs \o Zeros(x.exp - e))
           ELSE RoundHalfEven(x.digs, e - x.exp, FALSE)
  IN IF Len(d) > prec THEN NaN ELSE Number(x.sign, d, e)

DigitString(d) == [i \in 1..Len(d) |-> DigitChars[d[i] + 1]]

RECURSIVE NatString(_)
NatString(n) ==
  IF n < 10 THEN <<DigitChars[n + 1]>>
  ELSE NatString(n \div 10) \o <<DigitChars[(n % 10) + 1]>>

\* str(x) for x with no positive exponent: scientific notation from six
\* zeros after the point on
DecimalToString(x) ==
  LET left == Len(x.digs) + x.exp
      sgn == IF x.sign = 1 THEN <<"-">> ELSE <<>>
      d == DigitString(x.digs)
  IN IF x.nan THEN <<"N", "a", "N">>
     ELSE IF left > 0
          THEN sgn \o SubSeq(d, 1, left)
               \o (IF x.exp < 0 THEN <<".">> \o SubSeq(d, left + 1, Len(d)) ELSE <<>>)
     ELSE IF left > -6
          THEN sgn \o <<"0", ".">> \o DigitString(Zeros(-left)) \o d
     ELSE sgn \o <<d[1]>>
          \o (IF Len(d) > 1 THEN <<".">> \o SubSeq(d, 2, Len(d)) ELSE <<>>)
          \o <<"E", "-">> \o NatString(1 - left)

(***************************************************************************)
(* functions.py                                                            *)
(***************************************************************************)
\* a or b on captures
Or(a, b) == IF a # None THEN a ELSE b

\* a hemisphere that falls back to South or West
CleanupDirectionDefaulted(dir, dir2, sign, negative) ==
  IF Or(dir, dir2) # None THEN <<Upper(Or(dir, dir2)[1])>>
  ELSE <<negative>>

\* the hemisphere _cleanup gives one coordinate: None when the match has
\* neither a direction nor a sign
CleanupDirection(dir, dir2, sign, negative) ==
  IF Or(dir, dir2) # None THEN <<Upper(Or(dir, dir2)[1])>>
  ELSE IF sign = <<"-">> THEN <<negative>>
  ELSE None

\* _cleanup appending a fraction of minutes as soon as either coordinate has one
CleanupAppendsEither(parts) ==
  LET latdir == CleanupDirection(parts["latdir"], parts["latdir2"], parts["latsign"], "S")
      longdir == CleanupDirection(parts["longdir"], parts["longdir2"], parts["longsign"], "W")
      latmin == Or(parts["latmin"], <<"0", "0">>)
      longmin == Or(parts["longmin"], <<"0", "0">>)
      either == parts["latdecsec"] # None \/ parts["longdecsec"] # None
  IN IF either
     THEN <<latdir, parts["latdeg"], latmin \o parts["latdecsec"], <<"0", "0">>,
            longdir, parts["longdeg"], longmin \o parts["longdecsec"], <<"0", "0">> >>
     ELSE <<latdir, parts["latdeg"], latmin, Or(parts["latsec"], <<"0", "0">>),
            longdir, parts["longdeg"], longmin, Or(parts["longsec"], <<"0", "0">>) >>

\* _cleanup(parts): [latdir, latdeg, latmin, latsec, longdir, longdeg, longmin, longsec]
Cleanup(parts) ==
  LET latdir == CleanupDirection(parts["latdir"], parts["latdir2"], parts["latsign"], "S")
      longdir == CleanupDirection(parts["longdir"], parts["longdir2"], parts["longsign"], "W")
      latmin == Or(parts["latmin"], <<"0", "0">>)
      longmin == Or(parts["longmin"], <<"0", "0">>)
      both == parts["latdecsec"] # None /\ parts["longdecsec"] # None
  IN IF both
     THEN <<latdir, parts["latdeg"], latmin \o parts["latdecsec"], <<"0", "0">>,
            longdir, parts["longdeg"], longmin \o parts["longdecsec"], <<"0", "0">> >>
     ELSE <<latdir, parts["latdeg"], latmin, Or(parts["latsec"], <<"0", "0">>),
            longdir, parts["longdeg"], longmin, Or(parts["longsec"], <<"0", "0">>) >>

\* the exponent of the quantum: Decimal('0.000001'), Decimal('0.001') or Decimal('1')
Precision(latmin, latsec, longmin, longsec) ==
  IF latsec # <<"0", "0">> \/ longsec # <<"0", "0">> THEN -6
  ELSE IF latmin # <<"0", "0">> \/ longmin # <<"0", "0">> THEN -3
  ELSE 0

\* the divisor decided by the latitude's seconds alone
SecondsDivisorOfLatitude(latsec, longsec) ==
  IF GreaterThan59(latsec) THEN 100 ELSE 60

\* the divisor of the seconds: 100 when either seconds value is above 59
SecondsDivisor(latsec, longsec) ==
  IF GreaterThan59(latsec) \/ GreaterThan59(longsec) THEN 100 ELSE 60

\* degrees + (minutes + seconds / divisor) / 60 under ExtendedContext
DecimalDegrees(deg, min, sec, divisor) ==
  DecimalAdd(deg,
    DecimalDivide(DecimalAdd(min, DecimalDivide(sec, divisor, ExtendedPrec), ExtendedPrec),
                  60, ExtendedPrec),
    ExtendedPrec)

Signed(x, dir, negative) ==
  IF dir = <<negative>> THEN DecimalNegate(x, ExtendedPrec) ELSE x

\* _convert_to_lat_lng once the divisor of the seconds is decided
ConvertWithDivisor(t, divisor) ==
  LET precision == Precision(t[3], t[4], t[7], t[8])
      latitude == DecimalDegrees(DecimalFromString(t[2]), DecimalFromString(t[3]),
                                 DecimalFromString(t[4]), divisor)
      longitude == DecimalDegrees(DecimalFromString(t[6]), DecimalFromString(t[7]),
                                  DecimalFromString(t[8]), divisor)
  IN << DecimalToString(DecimalQuantize(Signed(latitude, t[1], "S"), precision, ExtendedPrec)),
        DecimalToString(DecimalQuantize(Signed(longitude, t[5], "W"), precision, ExtendedPrec)) >>

\* _convert_to_lat_lng(latdir, latdeg, latmin, latsec, longdir, longdeg, longmin, longsec)
ConvertToLatLng(t) ==
  ConvertWithDivisor(t, SecondsDivisor(DecimalFromString(t[4]), DecimalFromString(t[8])))

\* (parts[first] or parts[second] or default).upper()[0]
SignsDirection(dir, dir2, default) == Upper(Or(Or(dir, dir2), <<default>>)[1])

ConvertSign(x, dir, negative) ==
  IF dir \in {negative, "-"} THEN DecimalNegate(x, DefaultPrec) ELSE x

Returned(path, lat, long) ==
  [kind |-> "return", exc |-> "", path |-> path, lat |-> lat, long |-> long]
Raised(path, exc) ==
  [kind |-> "raise", exc |-> exc, path |-> path, lat |-> None, long |-> None]
NoResult == [kind |-> "none", exc |-> "", path |-> "", lat |-> None, long |-> None]

\* _convert_signs(parts): Decimal() of a capture that is no number raises
ConvertSigns(parts) ==
  LET latdir == SignsDirection(parts["latdir"], parts["latdir2"], "N")
      longdir == SignsDirection(parts["longdir"], parts["longdir2"], "S")
      latitude == DecimalFromString(parts["latitude"])
      longitude == DecimalFromString(parts["longitude"])
  IN IF latitude.nan \/ longitude.nan THEN Raised("decimal", "InvalidOperation")
     ELSE Returned("decimal",
                   DecimalToString(ConvertSign(latitude, latdir, "S")),
                   DecimalToString(ConvertSign(longitude, longdir, "W")))

Matched(m) == m.pos # 0

\* retrieve_lat_long, from the second pattern on: None has no groupdict
RetrieveDms(string) ==
  LET match == DegreeMinSecMatch(string)
  IN IF ~Matched(match) THEN Raised("dms", "AttributeError")
     ELSE LET c == ConvertToLatLng(Cleanup(match.g))
          IN Returned("dms", c[1], c[2])

\* retrieve_lat_long(string)
RetrieveLatLong(string) ==
  LET match == DecimalDegreeMatch(string)
  IN IF Matched(match) THEN ConvertSigns(match.g)
     ELSE RetrieveDms(NormalizeString(string))

\* the next match of finditer and sub from position p on, and where it starts
NextMatch(s, p) ==
  CHOOSE n \in
    { IF \A q \in DOMAIN at : ~Matched(at[q]) THEN [start |-> 0, m |-> NoMatch]
      ELSE CHOOSE r \in {[start |-> q, m |-> at[q]] : q \in DOMAIN at} :
             /\ Matched(r.m)
             /\ \A q \in DOMAIN at : Matched(at[q]) => r.start <= q
      : at \in {[q \in p..(Len(s) + 1) |-> FirstOf(DegreeMinSecStates(s, q))]} } : TRUE

\* MapLink(match.group(), latitude, longitude), handed to the substitution function
MapLink(s, n) ==
  LET c == ConvertToLatLng(Cleanup(n.m.g))
  IN [start |-> n.start, end |-> n.m.pos,
      original |-> SubSeq(s, n.start, n.m.pos - 1), lat |-> c[1], long |-> c[2]]

(***************************************************************************)
(* tests/tests.py: the documented corpus, each text with the coordinates   *)
(* expected of it.                                                         *)
(***************************************************************************)
DECIMAL_DEGREES_TESTS ==
  <<
    <<
      <<"4", "3", ".", "8", "9", "7", "4", "8", "1", ",", " ", "-", "8",
        "0", ".", "0", "5", "1", "9", "1", "1">>,
      <<"4", "3", ".", "8", "9", "7", "4", "8", "1", ",", "-", "8", "0",
        ".", "0", "5", "1", "9", "1", "1">> >>,
    <<
      <<"(", "4", "3", ".", "8", "9", "7", "4", "8", "1", ",", " ", "-",
        "8", "0", ".", "0", "5", "1", "9", "1", "1", ")">>,
      <<"4", "3", ".", "8", "9", "7", "4", "8", "1", ",", "-", "8", "0",
        ".", "0", "5", "1", "9", "1", "1">> >>,
    <<
      <<"N", " ", "5", "9", ".", "5", "9", " ", "W", " ", "4", "3", ".",
        "5", "0">>,
      <<"5", "9", ".", "5", "9", ",", "-", "4", "3", ".", "5", "0">> >>,
    <<
      <<"5", "9", ".", "5", "9", " ", "N", " ", "4", "3", ".", "5", "0",
        " ", "W">>,
      <<"5", "9", ".", "5", "9", ",", "-", "4", "3", ".", "5", "0">> >>,
    <<
      <<"N", "5", "9", ".", "5", "9", " ", "W", "4", "3", ".", "5", "0">>,
      <<"5", "9", ".", "5", "9", ",", "-", "4", "3", ".", "5", "0">> >>,
    <<
      <<"5", "9", ".", "5", "9", "N", " ", "4", "3", ".", "5", "0", "E">>,
      <<"5", "9", ".", "5", "9", ",", "4", "3", ".", "5", "0">> >>,
    <<
      <<"5", "2", ".", "5", " ", "d", "e", "g", "r", "e", "e", "s", " ",
        "n", "o", "r", "t", "h", ",", " ", "1", "2", "4", ".", "5", " ",
        "d", "e", "g", "r", "e", "e", "s", " ", "w", "e", "s", "t">>,
      <<"5", "2", ".", "5", ",", "-", "1", "2", "4", ".", "5">> >>,
    <<
      <<"5", "2", ".", "3", " ", "S", "o", "u", "t", "h", " ", "5", "0",
        ".", "8", " ", "W", "e", "s", "t">>,
      <<"-", "5", "2", ".", "3", ",", "-", "5", "0", ".", "8">> >>,
    <<
      <<"7", "0", ".", "5", " ", "DEG", " ", "N", " ", "4", "0", ".", "5",
        " ", "DEG", "W">>,
      <<"7", "0", ".", "5", ",", "-", "4", "0", ".", "5">> >>,
    <<
      <<"N", "4", "5", ".", "7", "DEG", " ", "W", "7", "7", ".", "3", "DEG">>,
      <<"4", "5", ".", "7", ",", "-", "7", "7", ".", "3">> >>,
    <<
      <<"4", "3", ".", "5", " ", "N", ",", " ", "8", "0", " ", "W">>,
      <<"4", "3", ".", "5", ",", "-", "8", "0">> >>
  >>

DEGREE_MIN_SECS_TESTS ==
  <<
    <<
      <<"N", "4", "2", "4", "4", "0", "0", " ", "W", "8", "0", "0", "5",
        "5", "7">>,
      <<"4", "2", ".", "7", "3", "3", "3", "3", "3", ",", "-", "8", "0",
        ".", "0", "9", "9", "1", "6", "7">> >>,
    <<
      <<"N", " ", "5", "9", "3", "0", " ", "W", " ", "1", "2", "3", "3", "0">>,
      <<"5", "9", ".", "5", "0", "0", ",", "-", "1", "2", "3", ".", "5",
        "0", "0">> >>,
    <<
      <<"4", "7", "4", "5", "N", "/", "6", "4", "4", "0", "W">>,
      <<"4", "7", ".", "7", "5", "0", ",", "-", "6", "4", ".", "6", "6", "7">> >>,
    <<
      <<"4", "5", "2", "3", "N", "/", "0", "7", "3", "1", "9", "W">>,
      <<"4", "5", ".", "3", "8", "3", ",", "-", "7", "3", ".", "3", "1", "7">> >>,
    <<
      <<"5", "3", "3", "5", "N", " ", "/", " ", "1", "2", "1", "5", "5", "W">>,
      <<"5", "3", ".", "5", "8", "3", ",", "-", "1", "2", "1", ".", "9",
        "1", "7">> >>,
    <<
      <<"5", "8", "1", "4", "7", "N", "/", "0", "7", "7", "2", "0", "W">>,
      <<"5", "8", ".", "2", "3", "5", "2", "7", "8", ",", "-", "7", "7",
        ".", "3", "3", "3", "3", "3", "3">> >>,
    <<
      <<"4", "6", "2", "7", "1", "6", "N", "/", "0", "7", "2", "1", "1",
        "4", "7", "W">>,
      <<"4", "6", ".", "4", "5", "4", "4", "4", "4", ",", "-", "7", "2",
        ".", "1", "9", "6", "3", "8", "9">> >>,
    <<
      <<"4", "9", "1", "5", "0", "0", "N", " ", "1", "2", "3", "0", "7",
        "2", "0", "W">>,
      <<"4", "9", ".", "2", "5", "0", "0", "0", "0", ",", "-", "1", "2",
        "3", ".", "1", "2", "2", "2", "2", "2">> >>,
    <<
      <<"5", "0", "4", "6", ".", "6", "N", " ", "/", " ", "0", "6", "8",
        "2", "9", ".", "2", "W">>,
      <<"5", "0", ".", "7", "7", "7", ",", "-", "6", "8", ".", "4", "8", "7">> >>,
    <<
      <<"5", "7", "3", "4", ".", "8", " ", "N", " ", "/", " ", "1", "0",
        "0", "0", "6", ".", "2", " ", "W">>,
      <<"5", "7", ".", "5", "8", "0", ",", "-", "1", "0", "0", ".", "1",
        "0", "3">> >>,
    <<
      <<"(", "4", "9", "5", "2", ".", "0", "1", "3", "N", " ", "/", " ",
        "0", "9", "5", "4", "8", ".", "4", "7", "4", "W", ")">>,
      <<"4", "9", ".", "8", "6", "7", ",", "-", "9", "5", ".", "8", "0", "8">> >>,
    <<
      <<"N", "4", "9", "0", "9", ".", "4", "4", " ", "W", "1", "2", "2",
        "1", "0", ".", "1", "3">>,
      <<"4", "9", ".", "1", "5", "7", ",", "-", "1", "2", "2", ".", "1",
        "6", "9">> >>,
    <<
      <<"6", "5", "3", "5", ".", "2", "6", "N", "/", "0", "8", "8", "0",
        "1", ".", "2", "5", "W">>,
      <<"6", "5", ".", "5", "8", "8", ",", "-", "8", "8", ".", "0", "2", "1">> >>,
    <<
      <<"5", "0", "3", "3", ".", "1", "5", "N", " ", "1", "1", "5", "4",
        "4", ".", "0", "9", "W">>,
      <<"5", "0", ".", "5", "5", "2", ",", "-", "1", "1", "5", ".", "7",
        "3", "5">> >>,
    <<
      <<"N", "5", "3", " ", "3", "5", ".", "4", "8", " ", "W", "1", "1",
        "2", " ", "0", "2", ".", "6", "0">>,
      <<"5", "3", ".", "5", "9", "1", ",", "-", "1", "1", "2", ".", "0",
        "4", "3">> >>,
    <<
      <<"5", "2", " ", "d", "e", "g", "r", "e", "e", "s", ",", " ", "4",
        "2", " ", "m", "i", "n", "u", "t", "e", "s", " ", "n", "o", "r",
        "t", "h", ",", " ", "1", "2", "4", " ", "d", "e", "g", "r", "e",
        "e", "s", ",", " ", "5", "0", " ", "m", "i", "n", "u", "t", "e",
        "s", " ", "w", "e", "s", "t">>,
      <<"5", "2", ".", "7", "0", "0", ",", "-", "1", "2", "4", ".", "8",
        "3", "3">> >>,
    <<
      <<"5", "1", "1", "5", "N", "8", "9", "4", "0", "W">>,
      <<"5", "1", ".", "2", "5", "0", ",", "-", "8", "9", ".", "6", "6", "7">> >>,
    <<
      <<"4", "6", "3", "0", " ", "N", "O", "R", "T", "H", " ", "5", "7",
        "0", "5", " ", "W", "E", "S", "T">>,
      <<"4", "6", ".", "5", "0", "0", ",", "-", "5", "7", ".", "0", "8", "3">> >>,
    <<
      <<"6", "1", "4", "6", " ", "n", "o", "r", "t", "h", " ", "5", "3",
        "2", "8", " ", "w", "e", "s", "t">>,
      <<"6", "1", ".", "7", "6", "7", ",", "-", "5", "3", ".", "4", "6", "7">> >>,
    <<
      <<"5", "2", " ", "N", "o", "r", "t", "h", " ", "5", "0", " ", "W",
        "e", "s", "t">>,
      <<"5", "2", ",", "-", "5", "0">> >>,
    <<
      <<"7", "0", " ", "DEG", " ", "5", "7", "N", " ", "0", "7", "0", " ",
        "DEG", " ", "0", "5", "W">>,
      <<"7", "0", ".", "9", "5", "0", ",", "-", "7", "0", ".", "0", "8", "3">> >>,
    <<
      <<"4", "5", "ORD", "1", "0", "APOS", "1", "7", "QUOT", "N", " ", "0",
        "7", "6", "ORD", "2", "3", "APOS", "4", "6", "QUOT", "W">>,
      <<"4", "5", ".", "1", "7", "1", "3", "8", "9", ",", "-", "7", "6",
        ".", "3", "9", "6", "1", "1", "1">> >>,
    <<
      <<"4", "5", "ORD", "1", "0", "QUOT", "1", "7", "APOS", "N", " ", "0",
        "7", "6", "ORD", "2", "3", "QUOT", "4", "6", "APOS", "W">>,
      <<"4", "5", ".", "1", "7", "1", "3", "8", "9", ",", "-", "7", "6",
        ".", "3", "9", "6", "1", "1", "1">> >>,
    <<
      <<"4", "3", "ORD", "5", "5", "APOS", "N", " ", "0", "7", "8", "ORD",
        "1", "8", "APOS", "W">>,
      <<"4", "3", ".", "9", "1", "7", ",", "-", "7", "8", ".", "3", "0", "0">> >>,
    <<
      <<"4", "3", "ORD", "0", "1", "N", " ", "0", "8", "1", "ORD", "4",
        "6", "W">>,
      <<"4", "3", ".", "0", "1", "7", ",", "-", "8", "1", ".", "7", "6", "7">> >>,
    <<
      <<"4", "9", "ORD", "4", "1", "APOS", "3", "4", "QUOT", "N", " ", "0",
        "9", "3", "ORD", "3", "7", "APOS", "5", "4", "QUOT", "W">>,
      <<"4", "9", ".", "6", "9", "2", "7", "7", "8", ",", "-", "9", "3",
        ".", "6", "3", "1", "6", "6", "7">> >>,
    <<
      <<"N", "5", "1", ".", "3", "3", ".", "9", " ", "W", "1", "1", "9",
        ".", "0", "2", ".", "3", "0">>,
      <<"5", "1", ".", "5", "5", "2", "5", "0", "0", ",", "-", "1", "1",
        "9", ".", "0", "4", "1", "6", "6", "7">> >>,
    <<
      <<"N", "5", "0", ".", "2", "6", ".", "0", "0", "8", " ", "W", "1",
        "2", "1", ".", "4", "1", ".", "4", "7", "0">>,
      <<"5", "0", ".", "4", "3", "3", ",", "-", "1", "2", "1", ".", "6",
        "9", "1">> >>,
    <<
      <<"4", "9", "-", "2", "1", ".", "8", "3", "4", "N", " ", "1", "2",
        "6", "-", "1", "5", ".", "9", "2", "3", "W">>,
      <<"4", "9", ".", "3", "6", "4", ",", "-", "1", "2", "6", ".", "2",
        "6", "5">> >>,
    <<
      <<"4", "0", "ORD", "0", "2", ".", "2", "4", "7", "APOS", "N", " ",
        "1", "1", "1", "ORD", "4", "4", ".", "3", "8", "3", "APOS", "W">>,
      <<"4", "0", ".", "0", "3", "7", ",", "-", "1", "1", "1", ".", "7",
        "4", "0">> >>,
    <<
      <<"N", "4", "9", "5", "3", "4", "2", " ", "/", " ", "W", "0", "7",
        "4", "2", "5", "5", "3">>,
      <<"4", "9", ".", "8", "9", "5", "0", "0", "0", ",", "-", "7", "4",
        ".", "4", "3", "1", "3", "8", "9">> >>,
    <<
      <<"5", "0", "2", "6", "6", "1", "N", " ", "1", "2", "1", "4", "1",
        "6", "1", "W">>,
      <<"5", "0", ".", "4", "4", "3", "5", "0", "0", ",", "-", "1", "2",
        "1", ".", "6", "9", "3", "5", "0", "0">> >>,
    <<
      <<"5", "0", " ", "2", "7", " ", "5", "5", " ", "N", " ", "1", "2",
        "7", " ", "2", "7", " ", "6", "5", " ", "W">>,
      <<"5", "0", ".", "4", "5", "9", "1", "6", "7", ",", "-", "1", "2",
        "7", ".", "4", "6", "0", "8", "3", "3">> >>,
    <<
      <<"4", "8", "4", "8", "1", "9", "N", " ", "1", "2", "3", "1", "1",
        "9", "5", "W">>,
      <<"4", "8", ".", "8", "0", "3", "1", "6", "7", ",", "-", "1", "2",
        "3", ".", "1", "9", "9", "1", "6", "7">> >>,
    <<
      <<"N", "4", "5", "DEG", " ", "2", "8", "APOS", " ", "W", "7", "7",
        "DEG", " ", "1">>,
      <<"4", "5", ".", "4", "6", "7", ",", "-", "7", "7", ".", "0", "1", "7">> >>,
    <<
      <<"4", "9", "3", "6", "1", "6", "N", " ", "1", "2", "2", "1", "2",
        "5", "8", "W">>,
      <<"4", "9", ".", "6", "0", "4", "4", "4", "4", ",", "-", "1", "2",
        "2", ".", "2", "1", "6", "1", "1", "1">> >>,
    <<
      <<"4", "9", ".", "3", "6", ".", "1", "6", "N", " ", "1", "2", "2",
        ".", "1", "2", ".", "5", "8", "W">>,
      <<"4", "9", ".", "6", "0", "4", "4", "4", "4", ",", "-", "1", "2",
        "2", ".", "2", "1", "6", "1", "1", "1">> >>,
    <<
      <<"4", "3", "DEG", "4", "4", "APOS", "3", "0", "QUOT", "N", " ", "7",
        "9", "DEG", "2", "2", "APOS", "2", "4", "QUOT", "W">>,
      <<"4", "3", ".", "7", "4", "1", "6", "6", "7", ",", "-", "7", "9",
        ".", "3", "7", "3", "3", "3", "3">> >>,
    <<
      <<"4", "3", "DEG", " ", "5", "3", "APOS", " ", "5", "0", ".", "9",
        "QUOT", "N", ",", " ", "8", "0", "DEG", " ", "0", "3", "APOS", " ",
        "0", "6", ".", "9", "QUOT", "W">>,
      <<"4", "3", ".", "8", "9", "7", "4", "7", "2", ",", "-", "8", "0",
        ".", "0", "5", "1", "9", "1", "7">> >>,
    <<
      <<"4", "3", "DEG", " ", "5", "3", "APOS", " ", "5", "0", ".", "9",
        "QUOT", ",", " ", "-", "8", "0", "DEG", " ", "0", "3", "APOS", " ",
        "0", "6", ".", "9", "QUOT">>,
      <<"4", "3", ".", "8", "9", "7", "4", "7", "2", ",", "-", "8", "0",
        ".", "0", "5", "1", "9", "1", "7">> >>,
    <<
      <<"4", "3", "DEG", " ", "5", "3", ".", "8", "4", "8", "APOS", ",",
        " ", "-", "8", "0", "DEG", " ", "3", ".", "1", "1", "5", "APOS">>,
      <<"4", "3", ".", "8", "9", "7", ",", "-", "8", "0", ".", "0", "5", "2">> >>,
    <<
      <<"4", "3", "DEG", " ", "5", "3", "APOS", " ", "5", "0", ".", "9",
        "QUOT", " ", "N", ",", " ", "8", "0", "DEG", " ", "0", "3", "APOS",
        " ", "0", "6", ".", "9", "QUOT", " ", "W">>,
      <<"4", "3", ".", "8", "9", "7", "4", "7", "2", ",", "-", "8", "0",
        ".", "0", "5", "1", "9", "1", "7">> >>,
    <<
      <<"3", "2", "DEG", "3", "6", ".", "9", "4", "2", "APOS", " ", "N",
        ",", " ", "1", "6", "9", "DEG", "5", "8", ".", "9", "6", "0",
        "APOS", " ", "W">>,
      <<"3", "2", ".", "6", "1", "6", ",", "-", "1", "6", "9", ".", "9",
        "8", "3">> >>,
    <<
      <<"7", "DEG", "5", "3", ".", "2", "2", "0", "APOS", " ", "N", ",",
        " ", "8", "0", "DEG", "3", "2", ".", "9", "0", "0", "APOS", " ", "E">>,
      <<"7", ".", "8", "8", "7", ",", "8", "0", ".", "5", "4", "8">> >>
  >>

(***************************************************************************)
(* tests/tests.py: the texts test_false_positive expects not to match.     *)
(***************************************************************************)
FALSE_POSITIVES ==
  << <<"G", "G", "N", "7", "3", "8", "3", " ", "w", "a", "s">>,
     <<"6", "8", "3", "0", "N", " ", "7", "0", "W">> >>

(***************************************************************************)
(* The texts the operations are called with.                               *)
(***************************************************************************)
\* bounds of the texts
MaxPad == 2
MaxCoords == 2
MaxQuoteLen == 2

Spaces(n) == [i \in 1..n |-> " "]

Texts(tests) == {tests[i][1] : i \in 1..Len(tests)}

\* where a coordinate's directions stand: before the latitude, after it,
\* before the longitude, after it
DmsDirections ==
  { << <<"N">>, <<>>, <<"W">>, <<>> >>,
    << <<>>, <<"s">>, <<>>, <<"e">> >>,
    << <<>>, <<>>, <<>>, <<>> >>,
    << <<>>, <<>>, <<"-">>, <<>> >>,
    << <<"-">>, <<>>, <<"-">>, <<>> >> }

\* what follows the degrees, the minutes and the seconds
DmsStyles ==
  { [deg |-> <<>>, min |-> <<>>, sec |-> <<>>],
    [deg |-> <<" ">>, min |-> <<" ">>, sec |-> <<>>],
    [deg |-> <<"DEG">>, min |-> <<"PRIME">>, sec |-> <<"DPRIME">>] }

\* minutes and seconds: none, minutes, minutes with seconds below and above
\* 59, zero minutes and seconds, a decimal fraction of minutes
DmsMinutesSeconds ==
  { [min |-> <<>>, sec |-> <<>>],
    [min |-> <<"2", "7">>, sec |-> <<>>],
    [min |-> <<"0", "0">>, sec |-> <<>>],
    [min |-> <<"2", "7">>, sec |-> <<"5", "5">>],
    [min |-> <<"2", "7">>, sec |-> <<"6", "5">>],
    [min |-> <<"2", "7">>, sec |-> <<"0", "0">>],
    [min |-> <<"2", "7">>, sec |-> <<".", "5">>] }

DmsPart(deg, ms, style) ==
  deg \o style.deg \o ms.min
  \o (IF ms.sec # <<>> /\ ms.sec[1] # "." THEN style.min ELSE <<>>)
  \o ms.sec
  \o (IF ms.sec # <<>> THEN style.sec ELSE <<>>)

DmsTexts ==
  { d[1] \o DmsPart(<<"5", "0">>, lat, style) \o d[2] \o <<" ">>
    \o d[3] \o DmsPart(<<"1", "2", "7">>, long, style) \o d[4] :
    d \in DmsDirections, style \in DmsStyles,
    lat \in DmsMinutesSeconds, long \in DmsMinutesSeconds }

DecimalNumbers ==
  { << <<"4", "3">>, <<"8", "0">> >>,
    << <<"4", "3", ".", "5", "0">>, <<"8", "0">> >>,
    << <<"4", "3", ".", "5", "0">>, <<"8", "0", ".", "2", "5">> >> }

DecimalTexts ==
  { d1 \o n[1] \o d2 \o <<" ">> \o d3 \o n[2] \o d4 :
    n \in DecimalNumbers,
    d1 \in {<<>>, <<"N">>, <<"-">>},
    d2 \in {<<>>, <<"N">>, <<" ", "s">>},
    d3 \in {<<>>, <<"W">>, <<"-">>},
    d4 \in {<<>>, <<"W">>, <<" ", "E">>} }

\* texts written with blanks around them
PaddedTexts ==
  { <<"4", "3", ".", "5", " ", "8", "0">>,
    <<"N", "4", "3", ".", "5", " ", "W", "8", "0", ".", "5">>,
    <<"4", "3", " ", "N", " ", "8", "0", " ", "W">>,
    <<"5", "0", "2", "7", "N", " ", "1", "2", "7", "2", "7", "W">>,
    <<"5", "0", "DEG", "2", "7", "PRIME", "N", " ",
      "1", "2", "7", "DEG", "2", "7", "PRIME", "W">>,
    <<"x", "y", "z">> }

Padded(texts) ==
  { Spaces(l) \o s \o r : s \in texts, l \in 0..MaxPad,
    r \in {Spaces(n) : n \in 0..MaxPad} \cup {<<"LF">>} }

\* texts of quotation marks, primes and blanks
QuoteAlphabet == {" ", "APOS", "PRIME", "BACKTICK", "DPRIME", "RDQUO", "5"}

RECURSIVE StringsOver(_, _)
StringsOver(alphabet, n) ==
  IF n = 0 THEN {<<>>}
  ELSE LET shorter == StringsOver(alphabet, n - 1)
       IN shorter \cup {Append(s, c) : s \in {x \in shorter : Len(x) = n - 1},
                                         c \in alphabet}

\* seconds with a decimal fraction of their own
FractionalSecondsTexts ==
  { <<"N", "5", "0", " ", "0", "0", " ", "0", "0", ".", "0", "0", "5", "3", "9", "9", "9",
      " ", "W", "1", "2", "7", " ", "0", "0", " ", "0", "0">>,
    <<"N", "5", "0", " ", "0", "0", " ", "0", "5", ".", "4",
      " ", "W", "1", "2", "7", " ", "0", "0", " ", "0", "5", ".", "4">>,
    <<"N", "5", "0", " ", "2", "7", " ", "9", ".", "0", "5", "4",
      " ", "W", "1", "2", "7", " ", "2", "7", " ", "0", "0">> }

\* coordinates written one after another
CoordinateTexts ==
  { DEGREE_MIN_SECS_TESTS[18][1], DEGREE_MIN_SECS_TESTS[6][1],
    DEGREE_MIN_SECS_TESTS[20][1] }

RECURSIVE Joined(_)
Joined(k) ==
  IF k = 1 THEN CoordinateTexts
  ELSE {a \o sep \o b : a \in Joined(k - 1), sep \in {<<" ">>, <<"LF">>},
                          b \in CoordinateTexts}

JoinedTexts == UNION {Joined(k) : k \in 2..MaxCoords}

Inputs ==
  Texts(DECIMAL_DEGREES_TESTS) \cup Texts(DEGREE_MIN_SECS_TESTS)
  \cup {FALSE_POSITIVES[i] : i \in 1..Len(FALSE_POSITIVES)}
  \cup DmsTexts \cup DecimalTexts \cup Padded(PaddedTexts)
  \cup StringsOver(QuoteAlphabet, MaxQuoteLen) \cup JoinedTexts
  \cup FractionalSecondsTexts

(***************************************************************************)
(* The calls: retrieve_lat_long, get_replacements and replace, each on one *)
(* text, step by step.                                                     *)
(***************************************************************************)
VARIABLES
  input,          \* the text the operation is called with
  op,             \* the operation called
  pc,             \* where the call stands
  string,         \* the local variable string
  parts,          \* match.groupdict() of the last match
  scan,           \* where finditer or sub looks for its next match
  substitutions,  \* get_replacements: the links so far, in the order found
  out,            \* replace: the pieces of the result so far
  result          \* what retrieve_lat_long returned or raised

vars == <<input, op, pc, string, parts, scan, substitutions, out, result>>

Init ==
  /\ input \in Inputs
  /\ op = "none"
  /\ pc = "idle"
  /\ string = <<>>
  /\ parts = NoMatch.g
  /\ scan = 0
  /\ substitutions = <<>>
  /\ out = <<>>
  /\ result = NoResult

\* retrieve_lat_long(string) is called
CallRetrieveLatLong ==
  /\ pc = "idle"
  /\ op' = "retrieve_lat_long"
  /\ string' = input
  /\ pc' = "decimal_degree_re"
  /\ UNCHANGED <<input, parts, scan, substitutions, out, result>>

\* match = decimal_degree_re.match(string): a match, whose groupdict() is
\* what _convert_signs gets as parts
DecimalDegreeMatched ==
  /\ pc = "decimal_degree_re"
  /\ \E match \in {DecimalDegreeMatch(string)} :
       /\ Matched(match)
       /\ parts' = match.g
  /\ pc' = "convert_signs"
  /\ UNCHANGED <<input, op, string, scan, substitutions, out, result>>

\* return _convert_signs(parts)
ReturnConvertSigns ==
  /\ pc = "convert_signs"
  /\ result' = ConvertSigns(parts)
  /\ pc' = "done"
  /\ UNCHANGED <<input, op, string, parts, scan, substitutions, out>>

DecimalDegreeNotMatched ==
  /\ pc = "decimal_degree_re"
  /\ ~Matched(DecimalDegreeMatch(string))
  /\ pc' = "normalize"
  /\ UNCHANGED <<input, op, string, parts, scan, substitutions, out, result>>

\* string = _normalize_string(string)
Normalize ==
  /\ pc = "normalize"
  /\ string' = NormalizeString(string)
  /\ pc' = "degree_min_sec_re"
  /\ UNCHANGED <<input, op, parts, scan, substitutions, out, result>>

\* match = degree_min_sec_re.match(string): a match, whose groupdict() is
\* what _cleanup gets as parts
DegreeMinSecMatched ==
  /\ pc = "degree_min_sec_re"
  /\ \E match \in {DegreeMinSecMatch(string)} :
       /\ Matched(match)
       /\ parts' = match.g
  /\ pc' = "convert_to_lat_lng"
  /\ UNCHANGED <<input, op, string, scan, substitutions, out, result>>

\* no match: match.groupdict() raises AttributeError
DegreeMinSecNotMatched ==
  /\ pc = "degree_min_sec_re"
  /\ ~Matched(DegreeMinSecMatch(string))
  /\ result' = Raised("dms", "AttributeError")
  /\ pc' = "done"
  /\ UNCHANGED <<input, op, string, parts, scan, substitutions, out>>

\* return _convert_to_lat_lng(*_cleanup(parts))
ReturnConvertToLatLng ==
  /\ pc = "convert_to_lat_lng"
  /\ \E c \in {ConvertToLatLng(Cleanup(parts))} :
       result' = Returned("dms", c[1], c[2])
  /\ pc' = "done"
  /\ UNCHANGED <<input, op, string, parts, scan, substitutions, out>>

\* get_replacements(string) is called: the text is normalized and scanned
CallGetReplacements ==
  /\ pc = "idle"
  /\ op' = "get_replacements"
  /\ string' = NormalizeString(input)
  /\ substitutions' = <<>>
  /\ scan' = 1
  /\ pc' = "finditer"
  /\ UNCHANGED <<input, parts, out, result>>

\* for match in matches: the next match and its link
FindIterNext ==
  /\ pc = "finditer"
  /\ \E match \in {NextMatch(string, scan)} :
       /\ match.start # 0
       /\ parts' = match.m.g
       /\ \E link \in {MapLink(string, match)} :
            /\ substitutions' = Append(substitutions, link)
            /\ scan' = link.end
  /\ UNCHANGED <<input, op, pc, string, out, result>>

\* no further match: return substitutions
FindIterStop ==
  /\ pc = "finditer"
  /\ NextMatch(string, scan).start = 0
  /\ pc' = "done"
  /\ UNCHANGED <<input, op, string, parts, scan, substitutions, out, result>>

\* a stretch of the text that sub leaves as it is
TextPiece(s, from, to) ==
  IF from > to THEN <<>>
  ELSE <<[start |-> from, end |-> to + 1, original |-> SubSeq(s, from, to),
          lat |-> None, long |-> None]>>

\* replace(string) is called: the text is normalized and handed to sub
CallReplace ==
  /\ pc = "idle"
  /\ op' = "replace"
  /\ string' = NormalizeString(input)
  /\ out' = <<>>
  /\ scan' = 1
  /\ pc' = "sub"
  /\ UNCHANGED <<input, parts, substitutions, result>>

\* do_replace(match): the text up to the match, then the link in its place
SubNext ==
  /\ pc = "sub"
  /\ \E match \in {NextMatch(string, scan)} :
       /\ match.start # 0
       /\ parts' = match.m.g
       /\ \E link \in {MapLink(string, match)} :
            /\ out' = out \o TextPiece(string, scan, link.start - 1) \o <<link>>
            /\ scan' = link.end
  /\ UNCHANGED <<input, op, pc, string, substitutions, result>>

\* no further match: the rest of the text
SubStop ==
  /\ pc = "sub"
  /\ NextMatch(string, scan).start = 0
  /\ out' = out \o TextPiece(string, scan, Len(string))
  /\ pc' = "done"
  /\ UNCHANGED <<input, op, string, parts, scan, substitutions, result>>

Next ==
  \/ CallRetrieveLatLong
  \/ DecimalDegreeMatched
  \/ ReturnConvertSigns
  \/ DecimalDegreeNotMatched
  \/ Normalize
  \/ DegreeMinSecMatched
  \/ DegreeMinSecNotMatched
  \/ ReturnConvertToLatLng
  \/ CallGetReplacements
  \/ FindIterNext
  \/ FindIterStop
  \/ CallReplace
  \/ SubNext
  \/ SubStop

Spec == Init /\ [][Next]_vars

(***************************************************************************)
(* What the properties below speak of.                                     *)
(***************************************************************************)
Done(operation) == pc = "done" /\ op = operation

\* retrieve_lat_long returned, by way of the pattern named
ReturnedBy(path) ==
  Done("retrieve_lat_long") /\ result.kind = "return" /\ result.path = path

Negated(number) == number # <<>> /\ number[1] = "-"

\* the digits after the decimal point
Decimals(number) ==
  IF \E i \in 1..Len(number) : number[i] = "."
  THEN Len(number) - (CHOOSE i \in 1..Len(number) : number[i] = ".")
  ELSE 0

\* digits with an optional fraction of digits, nothing else
PureDecimal(t) ==
  /\ t # <<>>
  /\ \A i \in 1..Len(t) : t[i] \in Digits \cup {"."}
  /\ t[1] # "." /\ t[Len(t)] # "."
  /\ Cardinality({i \in 1..Len(t) : t[i] = "."}) <= 1

\* a seconds field read as a number above 59
SecondsAbove59(sec) ==
  LET point == IF \E i \in 1..Len(sec) : sec[i] = "."
               THEN CHOOSE i \in 1..Len(sec) : sec[i] = "." ELSE Len(sec) + 1
      whole == IF point = 2 THEN DigitVal(sec[1])
               ELSE 10 * DigitVal(sec[1]) + DigitVal(sec[2])
  IN whole > 59 \/ (whole = 59 /\ \E i \in (point + 1)..Len(sec) : sec[i] # "0")

\* the links among the pieces replace puts out
Links(pieces) == SelectSeq(pieces, LAMBDA piece : piece.lat # None)

Coordinates(links) == [i \in 1..Len(links) |-> <<links[i].lat, links[i].long>>]

(***************************************************************************)
(* C1  retrieve_lat_long fails whenever neither pattern matches the        *)
(* normalized input: it returns no pair then.                              *)
(***************************************************************************)
C1_NoMatchRaises ==
  Done("retrieve_lat_long")
  => \A normalized \in {NormalizeString(input)} :
       (~Matched(DecimalDegreeMatch(normalized))
        /\ ~Matched(DegreeMinSecMatch(normalized)))
       => result.kind = "raise"

(***************************************************************************)
(* C2  get_replacements and replace find every coordinate of a text of k   *)
(* coordinates, left to right, each with its own converted pair.           *)
(***************************************************************************)
C2_Example == DEGREE_MIN_SECS_TESTS[18][1] \o <<" ">> \o DEGREE_MIN_SECS_TESTS[6][1]

C2_ExampleCoordinates ==
  << << <<"4", "6", ".", "5", "0", "0">>, <<"-", "5", "7", ".", "0", "8", "3">> >>,
     << <<"5", "8", ".", "2", "3", "5", "2", "7", "8">>,
        <<"-", "7", "7", ".", "3", "3", "3", "3", "3", "3">> >> >>

C2_Found ==
  IF op = "get_replacements" THEN substitutions ELSE Links(out)

C2_AllOccurrencesFound ==
  (Done("get_replacements") \/ Done("replace"))
  => /\ \A k \in 2..MaxCoords : input \in Joined(k) =>
          /\ Len(C2_Found) = k
          /\ \A i \in 1..(Len(C2_Found) - 1) : C2_Found[i].end <= C2_Found[i + 1].start
     /\ input = C2_Example => Coordinates(C2_Found) = C2_ExampleCoordinates

(***************************************************************************)
(* C3  When either seconds value is above 59, both are divided by 100;     *)
(* when neither is, both are divided by 60: one decision for the pair.     *)
(***************************************************************************)
C3_SharedSecondsDivisor ==
  ReturnedBy("dms")
  => \A t \in {Cleanup(parts)} :
       \A c \in {ConvertWithDivisor(t, IF SecondsAbove59(t[4]) \/ SecondsAbove59(t[8])
                                       THEN 100 ELSE 60)} :
         result.lat = c[1] /\ result.long = c[2]

\* "50 27 55" and "127 27 65": only the longitude's seconds are above 59
C3_OneSecondsAbove59 ==
  /\ ReturnedBy("dms")
  /\ parts["latsec"] = <<"5", "5">> /\ parts["longsec"] = <<"6", "5">>
  /\ result.lat = <<"5", "0", ".", "4", "5", "9", "1", "6", "7">>
  /\ result.long = <<"-", "1", "2", "7", ".", "4", "6", "0", "8", "3", "3">>

(***************************************************************************)
(* C4  The digits after the point follow the detail of the input: none for *)
(* degrees alone, three with minutes, six with seconds.                    *)
(***************************************************************************)
C4_Detail ==
  IF parts["latsec"] # None \/ parts["longsec"] # None THEN 6
  ELSE IF parts["latmin"] # None \/ parts["longmin"] # None THEN 3
  ELSE 0

C4_PrecisionFollowsDetail ==
  ReturnedBy("dms")
  => Decimals(result.lat) = C4_Detail /\ Decimals(result.long) = C4_Detail

(***************************************************************************)
(* C5  On the decimal-degree path a direction letter or word decides the   *)
(* hemisphere wherever it stands; a minus sign counts only without one.    *)
(***************************************************************************)
C5_Letter(dir, dir2) ==
  IF dir # None /\ dir # <<"-">> THEN <<Upper(dir[1])>>
  ELSE IF dir2 # None THEN <<Upper(dir2[1])>>
  ELSE None

C5_Negative(dir, dir2, letter) ==
  IF C5_Letter(dir, dir2) # None THEN C5_Letter(dir, dir2) = <<letter>>
  ELSE dir = <<"-">>

C5_LetterWinsOverMinus ==
  ReturnedBy("decimal")
  => /\ Negated(result.lat) <=> C5_Negative(parts["latdir"], parts["latdir2"], "S")
     /\ Negated(result.long) <=> C5_Negative(parts["longdir"], parts["longdir2"], "W")

(***************************************************************************)
(* C6  What the decimal-degree pattern captures as latitude and longitude  *)
(* are plain decimal numbers, returned as written but for a leading minus, *)
(* and the call never fails once the pattern has matched.                  *)
(***************************************************************************)
C6_NoDirection ==
  \A n \in {"latdir", "latdir2", "longdir", "longdir2"} : parts[n] = None

C6_DecimalPassThrough ==
  (Done("retrieve_lat_long") /\ result.path = "decimal")
  => /\ PureDecimal(parts["latitude"]) /\ PureDecimal(parts["longitude"])
     /\ result.kind = "return"
     /\ result.lat \in {parts["latitude"], <<"-">> \o parts["latitude"]}
     /\ result.long \in {parts["longitude"], <<"-">> \o parts["longitude"]}
     /\ C6_NoDirection
        => result.lat = parts["latitude"] /\ result.long = parts["longitude"]

(***************************************************************************)
(* C7  As stated: a match of the degree-minute-second pattern has minutes  *)
(* on both coordinates or on neither, and seconds on both or on neither.   *)
(***************************************************************************)
C7_DmsMatched == op = "retrieve_lat_long" /\ pc = "convert_to_lat_lng"

C7_Rejected(text) ==
  (Done("retrieve_lat_long") /\ input = text)
  => result = Raised("dms", "AttributeError")

C7_GranularitySymmetric ==
  /\ C7_DmsMatched
     => /\ parts["latmin"] # None <=> parts["longmin"] # None
        /\ parts["latsec"] # None <=> parts["longsec"] # None
  /\ \A i \in 1..Len(FALSE_POSITIVES) : C7_Rejected(FALSE_POSITIVES[i])

(***************************************************************************)
(* C7, amended: a match of the degree-minute-second pattern has minutes on *)
(* both coordinates or on neither; seconds may stand on one of them alone. *)
(* "6830N 70W" and "GGN7383 was" are not matched.                          *)
(***************************************************************************)
C7_MinutesSymmetric ==
  /\ C7_DmsMatched => (parts["latmin"] # None <=> parts["longmin"] # None)
  /\ \A i \in 1..Len(FALSE_POSITIVES) : C7_Rejected(FALSE_POSITIVES[i])

\* "6830N 70W", minutes on the latitude alone, was turned down
C7_UnevenMinutesRejected ==
  /\ Done("retrieve_lat_long")
  /\ input = FALSE_POSITIVES[2]
  /\ result = Raised("dms", "AttributeError")

(***************************************************************************)
(* C8  retrieve_lat_long gives for a text what it gives for the normalized *)
(* text: both patterns are tried on the normalized string.                 *)
(***************************************************************************)
C8_NormalizedFirst ==
  Done("retrieve_lat_long") => result = RetrieveLatLong(NormalizeString(input))

(***************************************************************************)
(* C9  _normalize_string is idempotent: normalizing a normalized string    *)
(* leaves it as it is.                                                     *)
(***************************************************************************)
C9_Normalized ==
  \/ op = "retrieve_lat_long" /\ pc = "degree_min_sec_re"
  \/ op \in {"get_replacements", "replace"}

C9_NormalizeIdempotent ==
  C9_Normalized => NormalizeString(string) = string

\* a text with blanks around it and a prime in it has been normalized
C9_NormalizeChanged ==
  /\ C9_Normalized
  /\ Len(string) < Len(input)
  /\ \E i \in 1..Len(input) : input[i] \in {"PRIME", "DPRIME", "BACKTICK", "RDQUO"}
  /\ \E i \in 1..Len(string) : string[i] \in {"APOS", "QUOT"}

(***************************************************************************)
(* C10  As stated: _cleanup gives every match a hemisphere letter, North   *)
(* and West when the match has neither a direction nor a sign, so that a   *)
(* longitude without either comes out negated.                             *)
(***************************************************************************)
C10_Unmarked(dir, dir2, sign) ==
  parts[dir] = None /\ parts[dir2] = None /\ parts[sign] = None

C10_Hemisphere(dir, dir2, sign, negative) ==
  IF parts[dir] # None THEN <<Upper(parts[dir][1])>>
  ELSE IF parts[dir2] # None THEN <<Upper(parts[dir2][1])>>
  ELSE IF parts[sign] = <<"-">> THEN <<negative>>
  ELSE None

ExactDigits == 40

C11_Exact(dir, deg, min, sec, divisor, negative, precision) ==
  LET value ==
        DecimalAdd(DecimalFromString(deg),
          DecimalDivide(DecimalAdd(DecimalFromString(min),
                          DecimalDivide(DecimalFromString(sec), divisor, ExactDigits),
                          ExactDigits),
                        60, ExactDigits),
          ExactDigits)
  IN DecimalToString(DecimalQuantize(
       IF dir = <<negative>> THEN DecimalNegate(value, ExactDigits) ELSE value,
       precision, ExactDigits))

C11_NaN == <<"N", "a", "N">>

\* C11: each returned coordinate is the value kept to ExactDigits digits,
\* rounded once to the selected precision, and is not NaN
C11_ExactRoundedOnce ==
  ReturnedBy("dms")
  => \A t \in {Cleanup(parts)} :
       \A divisor \in {SecondsDivisor(DecimalFromString(t[4]), DecimalFromString(t[8]))},
          precision \in {Precision(t[3], t[4], t[7], t[8])} :
         /\ result.lat = C11_Exact(t[1], t[2], t[3], t[4], divisor, "S", precision)
         /\ result.long = C11_Exact(t[5], t[6], t[7], t[8], divisor, "W", precision)
         /\ result.lat # C11_NaN /\ result.long # C11_NaN

(***************************************************************************)
(* C12  _cleanup uses the fractions of minutes only when both latdecsec    *)
(* and longdecsec were captured: each is then appended to its minutes and  *)
(* both seconds are "00".  Otherwise neither minutes field gets a          *)
(* fraction and each seconds field is its seconds capture, or "00".  So a  *)
(* minutes field with a point in it comes with both seconds "00".          *)
(***************************************************************************)
C12_HasPoint(s) == \E i \in DOMAIN s : s[i] = "."

C12_Zero == <<"0", "0">>

\* C12: the tuple _cleanup makes of a degree_min_sec_re match carries the
\* fractions of minutes only when both were captured, and a minutes field
\* with a point comes with both seconds "00"
C12_FractionOnlyWhenBoth ==
  C7_DmsMatched
  => \A t \in {Cleanup(parts)} :
       /\ IF parts["latdecsec"] # None /\ parts["longdecsec"] # None
          THEN /\ t[3] = Or(parts["latmin"], C12_Zero) \o parts["latdecsec"]
               /\ t[7] = Or(parts["longmin"], C12_Zero) \o parts["longdecsec"]
               /\ t[4] = C12_Zero /\ t[8] = C12_Zero
          ELSE /\ t[3] = Or(parts["latmin"], C12_Zero)
               /\ t[7] = Or(parts["longmin"], C12_Zero)
               /\ ~C12_HasPoint(t[3]) /\ ~C12_HasPoint(t[7])
               /\ t[4] = Or(parts["latsec"], C12_Zero)
               /\ t[8] = Or(parts["longsec"], C12_Zero)
       /\ (C12_HasPoint(t[3]) \/ C12_HasPoint(t[7]))
          => (t[4] = C12_Zero /\ t[8] = C12_Zero)

\* a match where only the latitude has a fraction of minutes, which
\* _cleanup left out of the minutes
C12_OneFractionDropped ==
  /\ C7_DmsMatched
  /\ parts["latdecsec"] # None /\ parts["longdecsec"] = None
  /\ Cleanup(parts)[3] = parts["latmin"]

====
